---- MODULE Spec2Model ----
(***************************************************************************)
(* First-login bootstrap tokens: generate_firstlogin_codes.py (producer)   *)
(* and verify_firstlogin_codes.py (verifier), and the JSON store between   *)
(* them.                                                                   *)
(*                                                                         *)
(* Strings are sequences of Unicode code points (ord / chr).  Python ints  *)
(* are unbounded, so an array element is a record [m, e] standing for the  *)
(* integer m * 2^e: e = 0 for every value the producer computes, and       *)
(* e = BigExp for an integer too large to be divided into a float.         *)
(***************************************************************************)
EXTENDS Integers, Sequences, FiniteSets, TLC

(***************************************************************************)
(* Bounds of the model                                                     *)
(***************************************************************************)
\* longest payload / array of the codec harness
MaxLen == 3
\* producer runs and foreign writes in one behaviour of the system
MaxOps == 1
\* exponent of the huge integers: 2^BigExp / d exceeds the largest float
\* (about 2^1024) for every divisor d the decoder can compute (d < 2^24)
BigExp == 1100

(***************************************************************************)
(* String constants of the two scripts, as code points                     *)
(***************************************************************************)
\* WORKER_URL_3: "https://z3c9h1-qs7f5l2p8.johan-351.workers.dev"
WORKER_URL_3 ==
    <<104, 116, 116, 112, 115, 58, 47, 47, 122, 51, 99, 57, 104, 49, 45, 113,
    115, 55, 102, 53, 108, 50, 112, 56, 46, 106, 111, 104, 97, 110, 45, 51, 53,
    49, 46, 119, 111, 114, 107, 101, 114, 115, 46, 100, 101, 118>>

\* WORKER_URL_2: "https://m4v8k2-rb6n0t3y9.johan-351.workers.dev"
WORKER_URL_2 ==
    <<104, 116, 116, 112, 115, 58, 47, 47, 109, 52, 118, 56, 107, 50, 45, 114,
    98, 54, 110, 48, 116, 51, 121, 57, 46, 106, 111, 104, 97, 110, 45, 51, 53,
    49, 46, 119, 111, 114, 107, 101, 114, 115, 46, 100, 101, 118>>

\* WORKER_URL_1: "https://h7p3w5-xd1q6e4z8.johan-351.workers.dev"
WORKER_URL_1 ==
    <<104, 116, 116, 112, 115, 58, 47, 47, 104, 55, 112, 51, 119, 53, 45, 120,
    100, 49, 113, 54, 101, 52, 122, 56, 46, 106, 111, 104, 97, 110, 45, 51, 53,
    49, 46, 119, 111, 114, 107, 101, 114, 115, 46, 100, 101, 118>>

\* AUDIENCE_ID_FULL: "2a1cae831a8b85fb7847b7aeedf2075cbe37316002f31ef308ebd5d4e5094e0d"
AUDIENCE_ID_FULL ==
    <<50, 97, 49, 99, 97, 101, 56, 51, 49, 97, 56, 98, 56, 53, 102, 98, 55, 56,
    52, 55, 98, 55, 97, 101, 101, 100, 102, 50, 48, 55, 53, 99, 98, 101, 51, 55,
    51, 49, 54, 48, 48, 50, 102, 51, 49, 101, 102, 51, 48, 56, 101, 98, 100, 53,
    100, 52, 101, 53, 48, 57, 52, 101, 48, 100>>

\* AUDIENCE_ID_RESTRICTED: "edc14b0fbb1c63640439b0c948515ddb63d15f6d2b2a7498c1d4f087a4706366"
AUDIENCE_ID_RESTRICTED ==
    <<101, 100, 99, 49, 52, 98, 48, 102, 98, 98, 49, 99, 54, 51, 54, 52, 48, 52,
    51, 57, 98, 48, 99, 57, 52, 56, 53, 49, 53, 100, 100, 98, 54, 51, 100, 49,
    53, 102, 54, 100, 50, 98, 50, 97, 55, 52, 57, 56, 99, 49, 100, 52, 102, 48,
    56, 55, 97, 52, 55, 48, 54, 51, 54, 54>>

\* AUDIENCE_ID_BASIC: "27fbdc72fab0dcccf1ceba4aafe2d72f07e2167ae9a6ee9f67012222672c8ede"
AUDIENCE_ID_BASIC ==
    <<50, 55, 102, 98, 100, 99, 55, 50, 102, 97, 98, 48, 100, 99, 99, 99, 102,
    49, 99, 101, 98, 97, 52, 97, 97, 102, 101, 50, 100, 55, 50, 102, 48, 55,
    101, 50, 49, 54, 55, 97, 101, 57, 97, 54, 101, 101, 57, 102, 54, 55, 48, 49,
    50, 50, 50, 50, 54, 55, 50, 99, 56, 101, 100, 101>>

\* STR_MEAM_SP: "MEAM "
STR_MEAM_SP ==
    <<77, 69, 65, 77, 32>>

\* STR_SP: " "
STR_SP ==
    <<32>>

\* STR_DOMAIN: "@meam-firstlogin.internal"
STR_DOMAIN ==
    <<64, 109, 101, 97, 109, 45, 102, 105, 114, 115, 116, 108, 111, 103, 105,
    110, 46, 105, 110, 116, 101, 114, 110, 97, 108>>

\* STR_KEY_PREFIX: "firstlogin_level"
STR_KEY_PREFIX ==
    <<102, 105, 114, 115, 116, 108, 111, 103, 105, 110, 95, 108, 101, 118, 101,
    108>>

\* STR_UNDERSCORE: "_"
STR_UNDERSCORE ==
    <<95>>

\* STR_MEAM_HTTPS: "MEAM https://"
STR_MEAM_HTTPS ==
    <<77, 69, 65, 77, 32, 104, 116, 116, 112, 115, 58, 47, 47>>

\* STR_TIER: "tier"
STR_TIER ==
    <<116, 105, 101, 114>>

\* STR_SOMENUMBERS: "somenumbers"
STR_SOMENUMBERS ==
    <<115, 111, 109, 101, 110, 117, 109, 98, 101, 114, 115>>

\* STR_DECODE_ERROR: "❌ DECODE ERROR at position "
STR_DECODE_ERROR ==
    <<10060, 32, 68, 69, 67, 79, 68, 69, 32, 69, 82, 82, 79, 82, 32, 97, 116,
    32, 112, 111, 115, 105, 116, 105, 111, 110, 32>>

(***************************************************************************)
(* Static configuration                                                    *)
(***************************************************************************)
\* generate_firstlogin_codes.py: WORKER_URLS, BOOTSTRAP_PINS, TIER_NAMES
WORKER_URLS == [level \in {1, 2, 3} |->
    IF level = 3 THEN WORKER_URL_3
    ELSE IF level = 2 THEN WORKER_URL_2 ELSE WORKER_URL_1]

\* "5329", "5229", "5129"
BOOTSTRAP_PINS == [level \in {1, 2, 3} |->
    IF level = 3 THEN <<53, 51, 50, 57>>
    ELSE IF level = 2 THEN <<53, 50, 50, 57>> ELSE <<53, 49, 50, 57>>]

\* "tier3", "tier2", "tier1"
TIER_NAMES == [level \in {1, 2, 3} |-> STR_TIER \o <<48 + level>>]

BASE_OFFSET == 13

\* verify_firstlogin_codes.py: AUDIENCE_IDS, BOOTSTRAP_PINS, BASE_OFFSET
Tiers == <<"FULL", "RESTRICTED", "BASIC">>

AUDIENCE_IDS == [tier \in {"FULL", "RESTRICTED", "BASIC"} |->
    IF tier = "FULL" THEN AUDIENCE_ID_FULL
    ELSE IF tier = "RESTRICTED" THEN AUDIENCE_ID_RESTRICTED
    ELSE AUDIENCE_ID_BASIC]

\* the PINs of the verifier, had the FULL PIN drifted from the producer's
verify_BOOTSTRAP_PINS_drifted == [tier \in {"FULL", "RESTRICTED", "BASIC"} |->
    IF tier = "FULL" THEN <<53, 51, 50, 56>>
    ELSE IF tier = "RESTRICTED" THEN <<53, 50, 50, 57>>
    ELSE <<53, 49, 50, 57>>]

verify_BOOTSTRAP_PINS == [tier \in {"FULL", "RESTRICTED", "BASIC"} |->
    IF tier = "FULL" THEN <<53, 51, 50, 57>>
    ELSE IF tier = "RESTRICTED" THEN <<53, 50, 50, 57>>
    ELSE <<53, 49, 50, 57>>]

\* the offset of the verifier, had it drifted from the producer's
verify_BASE_OFFSET_drifted == BASE_OFFSET - 1

verify_BASE_OFFSET == 13

(***************************************************************************)
(* Python primitives used by both scripts                                  *)
(***************************************************************************)
\* the integer n as an array element
IntVal(n) == [m |-> n, e |-> 0]

\* the integer n * 2^BigExp
HugeVal(n) == [m |-> n, e |-> BigExp]

\* d with its factors of two removed (d > 0)
RECURSIVE OddPart(_)
OddPart(d) == IF d % 2 = 0 THEN OddPart(d \div 2) ELSE d

\* whether the integer x is an exact multiple of d (0 < d < 2^BigExp)
Divides(d, x) ==
    IF x.e = 0 THEN x.m % d = 0 ELSE x.m % OddPart(d) = 0

Zeros(n) == [i \in 1..n |-> 48]

\* zfill4 without the padding
zfill4_unpadded(s) == s

\* str.zfill(4): pad on the left with "0", after a leading sign
zfill4(s) ==
    IF Len(s) >= 4 THEN s
    ELSE IF Len(s) > 0 /\ s[1] \in {43, 45}
         THEN <<s[1]>> \o Zeros(4 - Len(s)) \o Tail(s)
         ELSE Zeros(4 - Len(s)) \o s

\* s[-4:]
Last4(s) == IF Len(s) <= 4 THEN s ELSE SubSeq(s, Len(s) - 3, Len(s))

\* int(d) accepts a single decimal digit and raises ValueError otherwise
IsDigit(c) == c \in 48..57

\* pin_str = pin.zfill(4)[-4:]
pin_str(pin) == Last4(zfill4(pin))

\* pin_digits = [int(d) for d in pin_str]; defined when no int(d) raises
PinParses(pin) == \A i \in 1..Len(pin_str(pin)) : IsDigit(pin_str(pin)[i])

pin_digits(pin) == [i \in 1..Len(pin_str(pin)) |-> pin_str(pin)[i] - 48]

\* pin_multiplier, had the digit been taken without i % len(pin_digits)
pin_multiplier_unindexed(digits, i) ==
    LET pin_digit == digits[1]
    IN  IF pin_digit = 0 THEN 10 ELSE pin_digit

\* 10 if pin_digit == 0 else pin_digit, for the 0-based position i
pin_multiplier(digits, i) ==
    LET pin_digit == digits[(i % Len(digits)) + 1]
    IN  IF pin_digit = 0 THEN 10 ELSE pin_digit

\* ord(aud_id[(offset + i) % len(aud_id)]), for the 0-based position i
aud_ascii(aud, offset, i) == aud[((offset + i) % Len(aud)) + 1]

(***************************************************************************)
(* encode_payload (generate_firstlogin_codes.py)                           *)
(***************************************************************************)
EncodeRaise(msg) == [ok |-> FALSE, exc |-> msg, arr |-> <<>>]

encode_payload(payload, aud, pin) ==
    IF Len(aud) = 0 \/ Len(pin) = 0
    THEN EncodeRaise("ValueError: Audience ID and PIN are required")
    ELSE IF ~PinParses(pin)
    THEN EncodeRaise("ValueError: invalid literal for int()")
    ELSE IF Len(pin_digits(pin)) # 4
    THEN EncodeRaise("ValueError: PIN must be exactly 4 digits")
    ELSE LET digits == pin_digits(pin)
         IN  [ok |-> TRUE, exc |-> "none",
              arr |-> [k \in 1..Len(payload) |->
                         IntVal(payload[k]
                                * aud_ascii(aud, BASE_OFFSET, k - 1)
                                * pin_multiplier(digits, k - 1))]]

(***************************************************************************)
(* decode_payload (verify_firstlogin_codes.py)                             *)
(***************************************************************************)
\* encoded_value / d: true division of an int by an int.  The quotient of
\* an element with e = 0 is kept as the exact fraction num/den; the float
\* Python computes is integral, below 32 or above 126 exactly when the
\* fraction is.  A huge non-zero element raises OverflowError.
TrueDiv(x, d) ==
    IF d = 0 THEN [exc |-> "ZeroDivisionError", num |-> 0, den |-> 1]
    ELSE IF x.e > 0 /\ x.m # 0
    THEN [exc |-> "OverflowError", num |-> 0, den |-> 1]
    ELSE [exc |-> "none", num |-> x.m, den |-> d]

\* char_ascii.is_integer()
is_integer(q) == q.num % q.den = 0

\* not char_ascii.is_integer() or char_ascii < 32 or char_ascii > 126
InvalidChar(q) ==
    ~is_integer(q) \/ q.num < 32 * q.den \/ q.num > 126 * q.den

DecodeOk(chars) ==
    [kind |-> "string", chars |-> chars, pos |-> 0 - 1, num |-> 0,
     den |-> 1, exc |-> "none"]

\* return f"DECODE ERROR at position {i}: Invalid character {char_ascii}";
\* chars holds the text up to the position, pos and num/den the two numbers
DecodeError(i, q) ==
    [kind |-> "error_string", chars |-> STR_DECODE_ERROR, pos |-> i,
     num |-> q.num, den |-> q.den, exc |-> "none"]

\* an uncaught exception raised while position i was being processed
DecodeRaise(i, exc) ==
    [kind |-> "raise", chars |-> <<>>, pos |-> i, num |-> 0, den |-> 1,
     exc |-> exc]

\* line 45 for the 0-based position i: char_ascii = encoded_value /
\* (aud_ascii * pin_multiplier)
char_ascii(arr, aud, digits, i) ==
    TrueDiv(arr[i + 1],
            aud_ascii(aud, verify_BASE_OFFSET, i) * pin_multiplier(digits, i))

\* the loop body leaves the function at the 0-based position i: line 36
\* raises for an empty audience id, line 45 raises, or line 47 returns
LeavesAt(arr, aud, digits, i) ==
    \/ Len(aud) = 0
    \/ char_ascii(arr, aud, digits, i).exc # "none"
    \/ InvalidChar(char_ascii(arr, aud, digits, i))

\* the for loop of decode_payload: it ends at the first position that
\* leaves the function, and otherwise joins one character per element
DecodeLoop(arr, aud, digits) ==
    LET leaving == {i \in 0..(Len(arr) - 1) : LeavesAt(arr, aud, digits, i)}
    IN  IF leaving = {}
        THEN DecodeOk([k \in 1..Len(arr) |->
                         char_ascii(arr, aud, digits, k - 1).num
                         \div char_ascii(arr, aud, digits, k - 1).den])
        ELSE LET i == CHOOSE i \in leaving : \A j \in leaving : i <= j
             IN  IF Len(aud) = 0 THEN DecodeRaise(i, "ZeroDivisionError")
                 ELSE IF char_ascii(arr, aud, digits, i).exc # "none"
                 THEN DecodeRaise(i, char_ascii(arr, aud, digits, i).exc)
                 ELSE DecodeError(i, char_ascii(arr, aud, digits, i))

decode_payload(arr, aud, pin) ==
    IF ~PinParses(pin) THEN DecodeRaise(0 - 1, "ValueError")
    ELSE DecodeLoop(arr, aud, pin_digits(pin))

(***************************************************************************)
(* generate_firstlogin_array and update_somenumbers_json                   *)
(***************************************************************************)
\* payload = f"MEAM {worker_url} {tier_name}@meam-firstlogin.internal"
build_payload(level) ==
    STR_MEAM_SP \o WORKER_URLS[level] \o STR_SP \o TIER_NAMES[level]
    \o STR_DOMAIN

\* key_name = f"firstlogin_level{level}_{aud_id}"
build_store_key(level, aud) ==
    STR_KEY_PREFIX \o <<48 + level>> \o STR_UNDERSCORE \o aud

\* returns (key_name, encoded_array), or raises what encode_payload raises
generate_firstlogin_array(level, aud) ==
    IF level \notin DOMAIN WORKER_URLS
    THEN [ok |-> FALSE, exc |-> "ValueError: Invalid level",
          key_name |-> <<>>, encoded_array |-> <<>>]
    ELSE LET enc == encode_payload(build_payload(level), aud,
                                   BOOTSTRAP_PINS[level])
         IN  [ok |-> enc.ok, exc |-> enc.exc,
              key_name |-> IF enc.ok THEN build_store_key(level, aud)
                           ELSE <<>>,
              encoded_array |-> enc.arr]

\* The store file: whether it exists and, if so, the JSON object in it, a
\* function from key strings to arrays.
NoFile == [exists |-> FALSE, data |-> <<>>]

FileWith(data) == [exists |-> TRUE, data |-> data]

\* data = {"somenumbers": []}
FreshDocument == [k \in {STR_SOMENUMBERS} |-> <<>>]

\* lines 154-158: json.load of the file if it exists, else a fresh document
LoadDocument(f) == IF f.exists THEN f.data ELSE FreshDocument

\* SetKey, had the document been rebuilt from the one key
SetKey_alone(data, key_name, encoded_array) ==
    [k \in {key_name} |-> encoded_array]

\* line 161: data[key_name] = encoded_array
SetKey(data, key_name, encoded_array) ==
    [k \in (DOMAIN data) \cup {key_name} |->
        IF k = key_name THEN encoded_array ELSE data[k]]

\* lines 164-165: json.dump of the whole document over the file
WriteDocument(data) == FileWith(data)

\* the whole call, run without interference
update_somenumbers_json(key_name, encoded_array, f) ==
    WriteDocument(SetKey(LoadDocument(f), key_name, encoded_array))

(***************************************************************************)
(* The verification loop of verify_firstlogin_codes.py                     *)
(***************************************************************************)
\* str.split() separators among the code points below 128
IsSpace(c) == c \in (9..13) \cup (28..32)

\* the positions of s where a maximal run of non-space characters starts
FieldStarts(s) ==
    {i \in 1..Len(s) : ~IsSpace(s[i]) /\ (i = 1 \/ IsSpace(s[i - 1]))}

\* the last position of the run that starts at position i
FieldEnd(s, i) ==
    CHOOSE j \in i..Len(s) :
        /\ \A k \in i..j : ~IsSpace(s[k])
        /\ j = Len(s) \/ IsSpace(s[j + 1])

\* decoded_payload.split(): the maximal runs of non-space characters, in
\* the order of their positions
split(s) ==
    [n \in 1..Cardinality(FieldStarts(s)) |->
        LET i == CHOOSE i \in FieldStarts(s) :
                     Cardinality({j \in FieldStarts(s) : j < i}) = n - 1
        IN  SubSeq(s, i, FieldEnd(s, i))]

\* s.startswith(prefix)
startswith(s, prefix) ==
    Len(s) >= Len(prefix) /\ SubSeq(s, 1, Len(prefix)) = prefix

\* '3' if tier == 'FULL' else '2' if tier == 'RESTRICTED' else '1'
TierDigit(tier) ==
    IF tier = "FULL" THEN 51 ELSE IF tier = "RESTRICTED" THEN 50 ELSE 49

\* line 64
verify_key_name(tier, aud) ==
    STR_KEY_PREFIX \o <<TierDigit(tier)>> \o STR_UNDERSCORE \o aud

\* line 98-99: f"{expected_tier}@meam-firstlogin.internal"
expected_marker(tier) == STR_TIER \o <<TierDigit(tier)>> \o STR_DOMAIN

\* lines 85-104: what the format check prints for the value decode_payload
\* returned (either the decoded text or the text of its error message)
FormatLines(tier, decoded_payload) ==
    IF startswith(decoded_payload, STR_MEAM_HTTPS)
    THEN LET parts == split(decoded_payload)
         IN  IF Len(parts) >= 3
             THEN <<"VERIFICATION:",
                    IF parts[1] = <<77, 69, 65, 77>>
                    THEN "Preamble: ok" ELSE "Preamble: bad",
                    IF parts[3] = expected_marker(tier)
                    THEN "Email Format: Correct"
                    ELSE "Email Format: Expected other marker">>
             ELSE <<>>
    ELSE <<"VERIFICATION FAILED: Payload doesn't start with 'MEAM https://'">>

\* lines 63-106: one iteration of the loop, for one tier and audience id:
\* the lines printed, the value decode_payload returned and whether an
\* exception left the loop
VerifyTier(data, tier, aud) ==
    LET key_name == verify_key_name(tier, aud)
    IN  IF key_name \in DOMAIN data
        THEN LET decoded_payload ==
                     decode_payload(data[key_name], aud,
                                    verify_BOOTSTRAP_PINS[tier])
             IN  IF decoded_payload.kind = "raise"
                 THEN [tier |-> tier, found |-> TRUE,
                       decoded |-> decoded_payload, crashed |-> TRUE,
                       lines |-> <<"Traceback">>]
                 ELSE [tier |-> tier, found |-> TRUE,
                       decoded |-> decoded_payload, crashed |-> FALSE,
                       lines |-> <<"DECODED PAYLOAD:">>
                                 \o FormatLines(tier, decoded_payload.chars)]
        ELSE [tier |-> tier, found |-> FALSE,
              decoded |-> DecodeOk(<<>>), crashed |-> FALSE,
              lines |-> <<"KEY NOT FOUND IN somenumbers.json">>]

\* the loop over AUDIENCE_IDS.items(), from the tier at index i on; an
\* uncaught exception ends the script
RECURSIVE VerifyLoop(_, _, _)
VerifyLoop(data, i, reports) ==
    IF i > Len(Tiers) THEN reports
    ELSE LET r == VerifyTier(data, Tiers[i], AUDIENCE_IDS[Tiers[i]])
         IN  IF r.crashed THEN Append(reports, r)
             ELSE VerifyLoop(data, i + 1, Append(reports, r))

(***************************************************************************)
(* State                                                                   *)
(***************************************************************************)
VARIABLES
    payload,    \* codec: the string handed to encode_payload
    aud_id,     \* codec: the audience id of the encode and decode calls
    pin,        \* codec: the PIN handed to encode_payload
    encoded,    \* codec: what encode_payload returned or raised
    arr,        \* codec: the array handed to decode_payload
    tampered,   \* codec: 1-based position changed after encoding, or 0
    dpin,       \* codec: the PIN handed to decode_payload
    decoded,    \* codec: what decode_payload returned or raised
    cpc,        \* codec: "start", "encoded", "loaded" or "decoded"
    file,       \* the store file somenumbers.json
    genOK,      \* <<level, aud>> pairs whose key holds what the producer wrote
    report,     \* what the verifier printed, if it ran on this store content
    runs,       \* number of producer runs and foreign writes so far
    last,       \* the last operation on the store
    pc,         \* writers: "idle", "loaded" or "done", per writer
    local,      \* writers: the document each writer holds in memory
    args        \* writers: the key and array each writer was called with

codecVars == <<payload, aud_id, pin, encoded, arr, tampered, dpin, decoded,
               cpc>>
systemVars == <<file, genOK, report, runs, last>>
writerVars == <<pc, local, args>>
vars == <<codecVars, systemVars, writerVars>>

(***************************************************************************)
(* Inputs of the bounded checks                                            *)
(***************************************************************************)
\* newline, space, "M", "~"
PayloadChars == {10, 32, 77, 126}

SeqsUpTo(S, n) == UNION {[1..k -> S] : k \in 0..n}

Payloads == SeqsUpTo(PayloadChars, MaxLen)

\* "", "a", "2a1", "e0d7"
AudIds == {<<>>, <<97>>, <<50, 97, 49>>, <<101, 48, 100, 55>>}

\* "5329", "7329", "5129", "0329", "", "29", "15329", "5x29", "-29", "+5329"
Pins == {<<53, 51, 50, 57>>, <<55, 51, 50, 57>>, <<53, 49, 50, 57>>,
         <<48, 51, 50, 57>>, <<>>, <<50, 57>>, <<49, 53, 51, 50, 57>>,
         <<53, 120, 50, 57>>, <<45, 50, 57>>, <<43, 53, 51, 50, 57>>}

\* values an element of the stored array can be replaced by
TamperValues(x) ==
    {IntVal(0), IntVal(x.m + 1), IntVal(2 * x.m), IntVal(0 - x.m),
     IntVal(64 * 97 * 5), HugeVal(1), HugeVal(97 * 5)}

\* arrays of a store that the producer did not write
ArbElements == {IntVal(0), IntVal(77 * 97 * 5), IntVal(77 * 97 * 5 + 1),
                IntVal(200 * 97 * 5), HugeVal(1)}

ArbArrays == SeqsUpTo(ArbElements, MaxLen)

NoEncode == [ok |-> FALSE, exc |-> "not called", arr |-> <<>>]

NoDecode == [kind |-> "not called", chars |-> <<>>, pos |-> 0 - 1,
             num |-> 0, den |-> 1, exc |-> "none"]

NoReport == [ran |-> FALSE, crashed |-> FALSE, entries |-> <<>>]

NoLast == [op |-> "none", key |-> <<>>, value |-> <<>>, had |-> FALSE,
           writer |-> 0]

CodecIdle ==
    /\ payload = <<>> /\ aud_id = <<>> /\ pin = <<>>
    /\ encoded = NoEncode /\ arr = <<>> /\ tampered = 0
    /\ dpin = <<>> /\ decoded = NoDecode /\ cpc = "off"

SystemIdle ==
    /\ file = NoFile /\ genOK = {} /\ report = NoReport /\ runs = 0
    /\ last = NoLast

WritersIdle ==
    /\ pc = <<>> /\ local = <<>> /\ args = <<>>

(***************************************************************************)
(* SpecCodec: encode_payload and decode_payload on bounded inputs          *)
(***************************************************************************)
InitCodec ==
    /\ payload \in Payloads
    /\ aud_id \in AudIds
    /\ pin \in Pins
    /\ encoded = NoEncode /\ arr = <<>> /\ tampered = 0
    /\ dpin = <<>> /\ decoded = NoDecode /\ cpc = "start"
    /\ SystemIdle /\ WritersIdle

\* encoded_array = encode_payload(payload, aud_id, pin)
Encode ==
    /\ cpc = "start"
    /\ encoded' = encode_payload(payload, aud_id, pin)
    /\ arr' = encoded'.arr
    /\ cpc' = IF encoded'.ok THEN "encoded" ELSE "failed"
    /\ UNCHANGED <<payload, aud_id, pin, tampered, dpin, decoded>>
    /\ UNCHANGED <<systemVars, writerVars>>

\* one element of the stored array is changed before it is read back
Tamper ==
    /\ cpc = "encoded" /\ tampered = 0
    /\ \E j \in 1..Len(arr) : \E v \in TamperValues(arr[j]) :
          /\ v # arr[j]
          /\ arr' = [arr EXCEPT ![j] = v]
          /\ tampered' = j
    /\ UNCHANGED <<payload, aud_id, pin, encoded, dpin, decoded, cpc>>
    /\ UNCHANGED <<systemVars, writerVars>>

\* encoded_array = data[key_name] of a store with arbitrary content, in a
\* run where nothing was encoded
ReadArray ==
    /\ cpc = "start" /\ payload = <<>> /\ pin = <<>>
    /\ arr' \in ArbArrays
    /\ cpc' = "loaded"
    /\ UNCHANGED <<payload, aud_id, pin, encoded, tampered, dpin, decoded>>
    /\ UNCHANGED <<systemVars, writerVars>>

\* decoded_payload = decode_payload(encoded_array, aud_id, k); a changed
\* array is decoded with the PIN it was encoded with
Decode ==
    /\ cpc \in {"encoded", "loaded"}
    /\ \E k \in IF tampered = 0 THEN Pins ELSE {pin} :
          /\ dpin' = k
          /\ decoded' = decode_payload(arr, aud_id, k)
    /\ cpc' = "decoded"
    /\ UNCHANGED <<payload, aud_id, pin, encoded, arr, tampered>>
    /\ UNCHANGED <<systemVars, writerVars>>

NextCodec == Encode \/ Tamper \/ ReadArray \/ Decode

SpecCodec == InitCodec /\ [][NextCodec]_vars

(***************************************************************************)
(* SpecStore: update_somenumbers_json, one call after the other            *)
(***************************************************************************)
\* "ab"
StoreAud == <<97, 98>>

StoreKeys == {build_store_key(level, StoreAud) : level \in {1, 2, 3}}

StoreArrays == {<<>>, <<IntVal(1)>>, <<IntVal(1), IntVal(2)>>}

\* no file; {}; {"somenumbers": [7]}; {"somenumbers": [], <level 1 key>: [9]}
InitFiles ==
    {NoFile,
     FileWith(<<>>),
     FileWith([k \in {STR_SOMENUMBERS} |-> <<IntVal(7)>>]),
     FileWith([k \in {STR_SOMENUMBERS, build_store_key(1, StoreAud)} |->
                 IF k = STR_SOMENUMBERS THEN <<>> ELSE <<IntVal(9)>>])}

InitStore ==
    /\ file \in InitFiles
    /\ genOK = {} /\ report = NoReport /\ runs = 0 /\ last = NoLast
    /\ CodecIdle /\ WritersIdle

\* update_somenumbers_json(key_name, encoded_array, somenumbers_path)
Update ==
    /\ \E key_name \in StoreKeys : \E encoded_array \in StoreArrays :
          /\ file' = update_somenumbers_json(key_name, encoded_array, file)
          /\ last' = [op |-> "update", key |-> key_name,
                      value |-> encoded_array,
                      had |-> file.exists /\ key_name \in DOMAIN file.data,
                      writer |-> 0]
    /\ UNCHANGED <<genOK, report, runs>>
    /\ UNCHANGED <<codecVars, writerVars>>

NextStore == Update

SpecStore == InitStore /\ [][NextStore]_vars

(***************************************************************************)
(* SpecWriters: two update_somenumbers_json calls on the same file         *)
(***************************************************************************)
Writers == {1, 2}

InitWriters ==
    /\ file \in InitFiles
    /\ genOK = {} /\ report = NoReport /\ runs = 0 /\ last = NoLast
    /\ pc = [p \in Writers |-> "idle"]
    /\ local = [p \in Writers |-> <<>>]
    /\ args \in [Writers -> [key : StoreKeys,
                             value : StoreArrays \ {<<>>}]]
    /\ CodecIdle

\* lines 154-158 of writer p: the whole file is read
Load(p) ==
    /\ pc[p] = "idle"
    /\ local' = [local EXCEPT ![p] = LoadDocument(file)]
    /\ pc' = [pc EXCEPT ![p] = "loaded"]
    /\ UNCHANGED <<file, genOK, report, runs, last, args>>
    /\ UNCHANGED codecVars

\* Write, had the file been read again under a lock at the time of writing
Write_locked(p) ==
    /\ pc[p] = "loaded"
    /\ file' = WriteDocument(SetKey(LoadDocument(file), args[p].key,
                                    args[p].value))
    /\ pc' = [pc EXCEPT ![p] = "done"]
    /\ last' = [op |-> "write", key |-> args[p].key,
                value |-> args[p].value,
                had |-> file.exists /\ args[p].key \in DOMAIN file.data,
                writer |-> p]
    /\ UNCHANGED <<genOK, report, runs, local, args>>
    /\ UNCHANGED codecVars

\* lines 161-165 of writer p: the key is set in memory and the whole
\* document is written over the file
Write(p) ==
    /\ pc[p] = "loaded"
    /\ file' = WriteDocument(SetKey(local[p], args[p].key, args[p].value))
    /\ pc' = [pc EXCEPT ![p] = "done"]
    /\ last' = [op |-> "write", key |-> args[p].key,
                value |-> args[p].value,
                had |-> file.exists /\ args[p].key \in DOMAIN file.data,
                writer |-> p]
    /\ UNCHANGED <<genOK, report, runs, local, args>>
    /\ UNCHANGED codecVars

NextWriters == \E p \in Writers : Load(p) \/ Write(p)

SpecWriters == InitWriters /\ [][NextWriters]_vars

(***************************************************************************)
(* Spec: the producer script, the verifier script and the store file       *)
(***************************************************************************)
\* "0123456789", "short", ""
GenAuds ==
    {AUDIENCE_IDS[t] : t \in {"FULL", "RESTRICTED", "BASIC"}}
    \cup {<<48, 49, 50, 51, 52, 53, 54, 55, 56, 57>>,
          <<115, 104, 111, 114, 116>>, <<>>}

LevelOf(tier) == TierDigit(tier) - 48

\* "MEAM https://x"
TwoFields == STR_MEAM_HTTPS \o <<120>>

\* "MEAM http://x <marker>"
NoHttps(tier) ==
    STR_MEAM_SP \o <<104, 116, 116, 112, 58, 47, 47, 120>> \o STR_SP
    \o expected_marker(tier)

\* the payload of the next tier (another endpoint and marker)
OtherTierPayload(tier) == build_payload((LevelOf(tier) % 3) + 1)

\* "MEAM https://x <marker> extra"
ExtraField(tier) ==
    TwoFields \o STR_SP \o expected_marker(tier) \o STR_SP
    \o <<101, 120, 116, 114, 97>>

\* strings a foreign writer encoded for the tier with the tier's key material
ForeignStrings(tier) ==
    {TwoFields, NoHttps(tier), OtherTierPayload(tier), ExtraField(tier)}

\* arrays found under the tier's key that this producer did not write
ForeignArrays == [tier \in {"FULL", "RESTRICTED", "BASIC"} |->
    {encode_payload(s, AUDIENCE_IDS[tier], verify_BOOTSTRAP_PINS[tier]).arr :
        s \in ForeignStrings(tier)}
    \cup {<<IntVal(77 * AUDIENCE_IDS[tier][14] * 5), IntVal(7)>>,
          <<HugeVal(1)>>}]

Init ==
    /\ file \in {NoFile, FileWith([k \in {STR_SOMENUMBERS} |-> <<IntVal(7)>>])}
    /\ genOK = {} /\ report = NoReport /\ runs = 0 /\ last = NoLast
    /\ CodecIdle /\ WritersIdle

\* main() of generate_firstlogin_codes.py with --level, --aud, --dry-run
RunGenerator ==
    /\ runs < MaxOps
    /\ \E level \in {1, 2, 3} : \E aud \in GenAuds : \E dry_run \in BOOLEAN :
          LET g == generate_firstlogin_array(level, aud)
              stores == ~(Len(aud) = 0 \/ Len(aud) < 10) /\ g.ok /\ ~dry_run
          IN  /\ file' = IF stores
                         THEN update_somenumbers_json(g.key_name,
                                                      g.encoded_array, file)
                         ELSE file
              /\ genOK' = IF stores THEN genOK \cup {<<level, aud>>}
                          ELSE genOK
              /\ last' = [op |-> IF stores THEN "generate" ELSE "exit",
                          key |-> g.key_name, value |-> g.encoded_array,
                          had |-> FALSE, writer |-> 0]
    /\ runs' = runs + 1
    /\ report' = NoReport
    /\ UNCHANGED <<codecVars, writerVars>>

\* another writer of the shared document puts an array under a tier's key
ForeignWrite ==
    /\ runs < MaxOps
    /\ \E tier \in {"FULL", "RESTRICTED", "BASIC"} :
       \E a \in ForeignArrays[tier] :
          /\ file' = FileWith(SetKey(IF file.exists THEN file.data ELSE <<>>,
                                     verify_key_name(tier, AUDIENCE_IDS[tier]),
                                     a))
          /\ genOK' = genOK \ {<<LevelOf(tier), AUDIENCE_IDS[tier]>>}
          /\ last' = [op |-> "foreign",
                      key |-> verify_key_name(tier, AUDIENCE_IDS[tier]),
                      value |-> a, had |-> FALSE, writer |-> 0]
    /\ runs' = runs + 1
    /\ report' = NoReport
    /\ UNCHANGED <<codecVars, writerVars>>

\* verify_firstlogin_codes.py from top to bottom: the file is read once
\* (open raises when it is missing), then every tier is checked
RunVerifier ==
    /\ report' =
          IF ~file.exists
          THEN [ran |-> TRUE, crashed |-> TRUE, entries |-> <<>>]
          ELSE LET e == VerifyLoop(file.data, 1, <<>>)
               IN  [ran |-> TRUE,
                    crashed |-> e # <<>> /\ e[Len(e)].crashed,
                    entries |-> e]
    /\ last' = [op |-> "verify", key |-> <<>>, value |-> <<>>,
                had |-> FALSE, writer |-> 0]
    /\ UNCHANGED <<file, genOK, runs>>
    /\ UNCHANGED <<codecVars, writerVars>>

Next == RunGenerator \/ ForeignWrite \/ RunVerifier

Spec == Init /\ [][Next]_vars

(***************************************************************************)
(* Properties of the transform (SpecCodec)                                 *)
(***************************************************************************)
\* every character has a code in 32..126
Printable(s) == \A i \in 1..Len(s) : s[i] \in 32..126

\* the PIN, left-padded with "0" to four characters and cut to its last four
PaddedLast4(k) ==
    LET padded == IF Len(k) < 4 THEN Zeros(4 - Len(k)) \o k ELSE k
    IN  SubSeq(padded, Len(padded) - 3, Len(padded))

\* the PIN normalizes to exactly four decimal digits
NormalizesTo4Digits(k) ==
    /\ Len(PaddedLast4(k)) = 4
    /\ \A i \in 1..4 : PaddedLast4(k)[i] \in 48..57

\* the multiplier of the 0-based position i under the normalized PIN k
MultiplierAt(k, i) ==
    LET digit == PaddedLast4(k)[(i % 4) + 1] - 48
    IN  IF digit = 0 THEN 10 ELSE digit

\* audience_code(i) * multiplier(i) for the 0-based position i
DivisorAt(aud, k, i) == aud[((13 + i) % Len(aud)) + 1] * MultiplierAt(k, i)

\* encode_payload was called in this behaviour
EncodeCalled == encoded.exc # "not called"

\* payload, audience id and PIN are as the round trip requires
RoundTripInputs ==
    /\ EncodeCalled
    /\ Printable(payload)
    /\ aud_id # <<>>
    /\ NormalizesTo4Digits(pin)

\* the array was decoded as encoded, with the PIN it was encoded with
DecodedBack == cpc = "decoded" /\ tampered = 0 /\ dpin = pin

C5_AcceptsEveryNormalizingPin ==
    EncodeCalled =>
        /\ aud_id = <<>> => ~encoded.ok
        /\ ~NormalizesTo4Digits(pin) => ~encoded.ok
        /\ (aud_id # <<>> /\ NormalizesTo4Digits(pin)) => encoded.ok

\* C5 (amended): encode_payload raises, and returns no array, exactly when
\* the audience id is empty, the PIN is empty, or the PIN does not normalize
\* to four decimal digits; every other PIN is accepted with any non-empty
\* audience id.
C5_EncodeErrors ==
    EncodeCalled =>
        /\ encoded.ok <=>
              (aud_id # <<>> /\ pin # <<>> /\ NormalizesTo4Digits(pin))
        /\ ~encoded.ok => (encoded.arr = <<>> /\ cpc = "failed")

\* a two-character PIN was accepted after padding
C5_Witness ==
    /\ cpc = "encoded" /\ encoded.ok /\ Len(pin) = 2 /\ Len(payload) > 0

\* a non-empty PIN that does not normalize to four digits was refused
C5_WitnessRefused ==
    /\ cpc = "failed" /\ aud_id # <<>> /\ pin # <<>>
    /\ ~NormalizesTo4Digits(pin)

\* the integer x lies below, or above, the positive bound n < 2^BigExp
BelowBound(x, n) == IF x.e = 0 THEN x.m < n ELSE x.m <= 0

AboveBound(x, n) == IF x.e = 0 THEN x.m > n ELSE x.m > 0

\* x / d is non-integral or outside 32..126
BadQuotient(x, d) ==
    ~Divides(d, x) \/ BelowBound(x, 32 * d) \/ AboveBound(x, 126 * d)

\* the 0-based positions of the array whose quotient is bad under PIN k
BadPositions(k) ==
    {i \in 0..(Len(arr) - 1) : BadQuotient(arr[i + 1], DivisorAt(aud_id, k, i))}

MinOf(S) == CHOOSE i \in S : \A j \in S : i <= j

\* one element of an array encoded from a printable payload was replaced by
\* a value that its divisor does not divide, and the array was decoded with
\* the same audience id and PIN
TamperedDecoded ==
    /\ cpc = "decoded" /\ tampered > 0 /\ dpin = pin
    /\ Printable(payload)
    /\ ~Divides(DivisorAt(aud_id, pin, tampered - 1), arr[tampered])

\* C2: decoding an array with one element replaced by a value that is not
\* a multiple of its divisor returns the decode error for that position,
\* and never a string.
C2_TamperDetected ==
    TamperedDecoded =>
        /\ decoded.kind = "error_string"
        /\ decoded.pos = tampered - 1

\* C2, for replacement values small enough to be divided into a float
C2_TamperDetectedInFloatRange ==
    (TamperedDecoded /\ arr[tampered].e = 0) =>
        /\ decoded.kind = "error_string"
        /\ decoded.pos = tampered - 1

\* C2, weaker: whatever the replacement value, no string is returned
C2_TamperNeverDecodes == TamperedDecoded => decoded.kind # "string"

\* an arbitrary array was decoded with a non-empty audience id and a PIN of
\* four decimal digits
ArbitraryDecoded ==
    /\ cpc = "decoded" /\ aud_id # <<>> /\ NormalizesTo4Digits(dpin)

\* C9: if some quotient is non-integral or outside 32..126, decode_payload
\* returns the error naming the lowest such position and its quotient, and
\* no string; it returns a string, of the array's length, only when every
\* position passes.
C9_AbortsAtFirstFailure ==
    ArbitraryDecoded =>
        IF BadPositions(dpin) # {}
        THEN /\ decoded.kind = "error_string"
             /\ decoded.pos = MinOf(BadPositions(dpin))
             /\ decoded.num = arr[decoded.pos + 1].m
             /\ decoded.den = DivisorAt(aud_id, dpin, decoded.pos)
        ELSE /\ decoded.kind = "string"
             /\ Len(decoded.chars) = Len(arr)

\* C9, for arrays whose elements are small enough to be divided into a float
C9_AbortsAtFirstFailureInFloatRange ==
    (ArbitraryDecoded /\ \A i \in 1..Len(arr) : arr[i].e = 0) =>
        C9_AbortsAtFirstFailure

\* the PINs of the encode and the decode call have four decimal digits each
\* and differ in exactly one of them
OneDigitDiffers(k1, k2) ==
    /\ NormalizesTo4Digits(k1) /\ NormalizesTo4Digits(k2)
    /\ Cardinality({i \in 1..4 : PaddedLast4(k1)[i] # PaddedLast4(k2)[i]}) = 1

\* the first 0-based position whose PIN digit differs
FirstDiffering(k1, k2) ==
    (CHOOSE i \in 1..4 : PaddedLast4(k1)[i] # PaddedLast4(k2)[i]) - 1

\* an array encoded from a printable payload was decoded with a PIN that
\* differs in one digit, and the payload reaches a position of that digit
WrongPinDecoded ==
    /\ cpc = "decoded" /\ encoded.ok /\ tampered = 0
    /\ Printable(payload)
    /\ OneDigitDiffers(pin, dpin)
    /\ FirstDiffering(pin, dpin) < Len(payload)

C3_WitnessWrongString ==
    /\ WrongPinDecoded
    /\ decoded.kind = "string" /\ decoded.chars # payload

(***************************************************************************)
(* Properties of the store (SpecStore, SpecWriters)                        *)
(***************************************************************************)
\* the keys of the store file before a call; none when there is no file
KeysOf(f) == IF f.exists THEN DOMAIN f.data ELSE {}

\* the call recorded in last' set its key to its array and left every other
\* key of the file as it was
KeepsOtherKeys ==
    /\ file'.exists
    /\ last'.key \in DOMAIN file'.data
    /\ file'.data[last'.key] = last'.value
    /\ \A k \in KeysOf(file) \ {last'.key} :
          k \in DOMAIN file'.data /\ file'.data[k] = file.data[k]

\* C6 as stated: every call sets exactly the one key it was given, keeps all
\* other keys with their values and removes none.
C6_SetsExactlyOneKey ==
    [][KeepsOtherKeys /\ DOMAIN file'.data = KeysOf(file) \cup {last'.key}]_vars

\* C6 (amended): every call sets the key it was given to the given array,
\* keeps all other keys with their values and removes none; it adds no
\* other key, except that a call that finds no file also creates the key
\* "somenumbers" with an empty array.
C6_Additive ==
    [][/\ KeepsOtherKeys
       /\ DOMAIN file'.data =
             KeysOf(file) \cup {last'.key}
             \cup (IF file.exists THEN {} ELSE {STR_SOMENUMBERS})
       /\ ~file.exists => file'.data[STR_SOMENUMBERS] = <<>>]_vars

\* a call replaced the array of a key that was present, in a file that
\* holds two other keys
C6_Witness ==
    /\ last.op = "update" /\ last.had
    /\ Cardinality(DOMAIN file.data) >= 3
    /\ file.data[last.key] = last.value

\* both writers are done, with different keys; q wrote last, and the
\* document q had loaded did not hold p's key
LostUpdateCase(p, q) ==
    /\ p # q
    /\ pc[p] = "done" /\ pc[q] = "done"
    /\ args[p].key # args[q].key
    /\ last.writer = q
    /\ args[p].key \notin DOMAIN local[q]

\* C10: when two calls with different keys interleave so that the last
\* writer loaded the file before the other's write, both complete and the
\* final document holds the last writer's key but not the other's.
C10_LostUpdate ==
    \A p \in DOMAIN pc : \A q \in DOMAIN pc :
        LostUpdateCase(p, q) =>
            /\ file.exists
            /\ args[q].key \in DOMAIN file.data
            /\ file.data[args[q].key] = args[q].value
            /\ args[p].key \notin DOMAIN file.data

\* both calls completed and the first writer's key is gone
C10_Witness ==
    \E p \in DOMAIN pc : \E q \in DOMAIN pc :
        /\ LostUpdateCase(p, q)
        /\ args[p].key \notin DOMAIN file.data

(***************************************************************************)
(* Properties of producer and verifier together (Spec)                     *)
(***************************************************************************)
TierOfLevel(level) ==
    IF level = 3 THEN "FULL" ELSE IF level = 2 THEN "RESTRICTED" ELSE "BASIC"

\* what the verifier prints for a tier whose payload passes every check
SuccessLines ==
    <<"DECODED PAYLOAD:", "VERIFICATION:", "Preamble: ok",
      "Email Format: Correct">>

FormatMismatchLine ==
    "VERIFICATION FAILED: Payload doesn't start with 'MEAM https://'"

\* "MEAM <url of the level> tier<level>@meam-firstlogin.internal"
ExpectedPayload(level) ==
    <<77, 69, 65, 77, 32>> \o WORKER_URLS[level] \o <<32>>
    \o <<116, 105, 101, 114, 48 + level>> \o STR_DOMAIN

\* the loop body accepts what the producer stored for (level, aud)
Accepts(level, aud) ==
    LET tier == TierOfLevel(level)
        r == VerifyTier(file.data, tier, aud)
    IN  /\ file.exists
        /\ verify_key_name(tier, aud) = build_store_key(level, aud)
        /\ r.found /\ ~r.crashed
        /\ r.decoded.kind = "string"
        /\ r.decoded.chars = ExpectedPayload(level)
        /\ r.lines = SuccessLines

\* the entries of the verifier's report
Entries == {report.entries[i] : i \in 1..Len(report.entries)}

\* C4: after the producer stored the array of (level, aud), the loop body
\* of the verifier for the matching tier and the same audience id computes
\* the same key, finds the array, decodes it to the generated payload and
\* accepts its format; and a run of the verifier reports so for every tier
\* it reached whose audience id the producer was given.
C4_ProducerVerifierAgree ==
    /\ \A g \in genOK : Accepts(g[1], g[2])
    /\ \A e \in Entries :
          <<LevelOf(e.tier), AUDIENCE_IDS[e.tier]>> \in genOK =>
              /\ e.found
              /\ e.decoded.chars = ExpectedPayload(LevelOf(e.tier))
              /\ e.lines = SuccessLines

\* the verifier ran on a store the producer wrote for a tier's audience id
C4_Witness ==
    /\ report.ran /\ last.op = "verify"
    /\ \E e \in Entries :
          /\ <<LevelOf(e.tier), AUDIENCE_IDS[e.tier]>> \in genOK
          /\ e.lines = SuccessLines

\* the checks (a) to (d) on a decoded string
FailsChecks(tier, s) ==
    LET parts == split(s)
    IN  \/ ~startswith(s, <<77, 69, 65, 77>>)
        \/ Len(parts) < 3
        \/ ~startswith(parts[2], <<104, 116, 116, 112, 115, 58, 47, 47>>)
        \/ parts[3] # expected_marker(tier)

\* the lines name a failed check
ReportsFailure(lines) ==
    \E i \in 1..Len(lines) :
        lines[i] \in {FormatMismatchLine, "Preamble: bad",
                      "Email Format: Expected other marker"}

\* C7: every successfully decoded string that fails one of the checks (a)
\* to (d) gets a line that reports the failure.
C7_EveryFailureReported ==
    \A e \in Entries :
        (e.found /\ e.decoded.kind = "string"
         /\ FailsChecks(e.tier, e.decoded.chars))
        => ReportsFailure(e.lines)

\* C7, for decoded strings of at least three fields
C7_ReportedWithThreeFields ==
    \A e \in Entries :
        (e.found /\ e.decoded.kind = "string"
         /\ Len(split(e.decoded.chars)) >= 3
         /\ FailsChecks(e.tier, e.decoded.chars))
        => ReportsFailure(e.lines)

\* C8: when decode_payload returns its error the verifier shows it and does
\* not report a format mismatch; a format mismatch is reported only for a
\* string that was decoded.
C8_DecodeErrorDistinct ==
    \A e \in Entries :
        /\ (e.found /\ e.decoded.kind = "error_string") =>
              \A i \in 1..Len(e.lines) : e.lines[i] # FormatMismatchLine
        /\ (\E i \in 1..Len(e.lines) : e.lines[i] = FormatMismatchLine) =>
              e.decoded.kind = "string"

====
